---- MODULE Spec2Model ----
(***************************************************************************)
(* toflush: a Transform stream (object mode) that collects every object    *)
(* written to it and, on flush, hands the whole array to a user callback,  *)
(* pushing what the callback returns (or resolves to) downstream.          *)
(*                                                                         *)
(* The model follows src/toflush.js.  The host stream.Transform is         *)
(* represented by the calls the module makes on it (next, push, done) and  *)
(* by the calls it makes on the module (transform, flush).                 *)
(***************************************************************************)
EXTENDS Integers, Sequences, FiniteSets, TLC

VARIABLES
    options,    \* the argument of toflush(options)
    stream,     \* the Transform returned by toflush: its lifecycle
    name,       \* var name      (toflush.js:96,109)
    items,      \* var items     (toflush.js:94)
    written,    \* objects upstream has written to the stream, in order
    ended,      \* upstream has signalled end-of-input
    nextCalls,  \* arguments of every next(...) call made by transform()
    calls,      \* argument of every callback.call(stream, items)
    mode,       \* how the callback delivered its outcome: sync or async
    promise,    \* position in the promise chain built by flush()
    outcome,    \* value the chain is fulfilled with / reason it is rejected with
    pushed,     \* arguments of every stream.push(...) call, in order
    copy,       \* var copy in the catch handler (toflush.js:136)
    doneCalls,  \* arguments of every done(...) call, in order
    errors,     \* errors the stream has emitted on its 'error' channel
    trace,      \* every call and event above, in the order it happened
    pair        \* two more streams made from the same argument, each with
                \* the variables of its own toflush call (up to the flush)

single == <<options, stream, name, items, written, ended, nextCalls, calls,
            mode, promise, outcome, pushed, copy, doneCalls, errors, trace>>

vars == <<single, pair>>

----------------------------------------------------------------------------
(* Bounds of the model *)

\* objects upstream writes before it ends
MaxItems == 3
\* length of an array the callback returns
MaxResult == 2

----------------------------------------------------------------------------
(* JavaScript values *)

Undefined == [type |-> "undefined"]
Null == [type |-> "null"]
ErrorObj(m) == [type |-> "Error", message |-> m]
Str(s) == [type |-> "string", text |-> s]
Obj(v, s) == [type |-> "object", value |-> v, isStream |-> s]
Arr(s) == [type |-> "array", elems |-> s]

\* one entry of the trace: what happened, and the value it happened with
Ev(kind, x) == [ev |-> kind, arg |-> x]

\* isStream: "absent" (no such method), "no" (method answers false),
\* "yes" (method answers true), as MockVinyl in the tests
Items == {Obj(0, "absent"), Obj(1, "no"), Obj(2, "yes")}

\* what a callback may hand back as one value: an input object, an object of
\* its own making, or nothing (undefined)
Values == Items \cup {Obj(9, "absent"), Undefined}

SeqsUpTo(S, n) == UNION {[1..k -> S] : k \in 0..n}

Results == Values \cup {Arr(s) : s \in SeqsUpTo(Values, MaxResult)}

\* what a callback may throw or reject with
Failures == {ErrorObj("test error"), ErrorObj(""), Str("test rejection"),
             Str(""), Undefined, Null}

----------------------------------------------------------------------------
(* The argument of toflush(options) *)

NotAFunction == [type |-> "undefined"]
Fn(n) == [type |-> "function", name |-> n]

\* "" is the name of an anonymous function
CallbackNames == {"", "customname", "dopedname"}
\* "" stands for a name option that is absent or empty: both are falsy
OptionNames == {"", "namefromoptions"}

\* a bare callback, an options record, or nothing at all
Arguments ==
    {Fn(n) : n \in CallbackNames}
    \cup {[type |-> "object", callback |-> c, name |-> n, stream |-> s] :
            c \in {NotAFunction} \cup {Fn(m) : m \in CallbackNames},
            n \in OptionNames, s \in BOOLEAN}
    \cup {Undefined}

\* toflush.name
DefaultName == "toflush"

\* callback = options  |  options && options.callback
CallbackOf(opts) ==
    IF opts.type = "function" THEN opts
    ELSE IF opts.type = "object" THEN opts.callback
    ELSE opts

\* options = {stream: false} for a bare callback
OptionsOf(opts) ==
    IF opts.type = "function"
    THEN [type |-> "object", callback |-> opts, name |-> "", stream |-> FALSE]
    ELSE opts

\* a faulty variant: the callback's own name wins over options.name
ResolveNameCallbackFirst(opts) ==
    IF CallbackOf(opts).name # "" THEN CallbackOf(opts).name
    ELSE IF OptionsOf(opts).name # "" THEN OptionsOf(opts).name
    ELSE DefaultName

\* name = options.name || callback.name || toflush.name
ResolveName(opts) ==
    IF OptionsOf(opts).name # "" THEN OptionsOf(opts).name
    ELSE IF CallbackOf(opts).name # "" THEN CallbackOf(opts).name
    ELSE DefaultName

----------------------------------------------------------------------------
(* Initial state: toflush has not been called yet *)

Init ==
    /\ options \in Arguments
    /\ stream = "none"
    /\ name = ""
    /\ items = <<>>
    /\ written = <<>>
    /\ ended = FALSE
    /\ nextCalls = <<>>
    /\ calls = <<>>
    /\ mode = "none"
    /\ promise = "none"
    /\ outcome = Undefined
    /\ pushed = <<>>
    /\ copy = Undefined
    /\ doneCalls = <<>>
    /\ errors = <<>>
    /\ trace = <<>>
    /\ pair = [i \in 1..2 |->
                [stream |-> "none", name |-> "", items |-> <<>>,
                 written |-> <<>>, ended |-> FALSE, nextCalls |-> <<>>,
                 calls |-> <<>>]]

\* a faulty variant: the argument is not validated, the Transform is always
\* returned
toflushUnchecked ==
    /\ stream = "none"
    /\ stream' = "open"
    /\ name' = IF CallbackOf(options).type = "function"
               THEN ResolveName(options) ELSE DefaultName
    /\ UNCHANGED <<pair, options, items, written, ended, nextCalls, calls, mode,
                   promise, outcome, pushed, copy, doneCalls, errors, trace>>

\* function toflush(options): throws a TypeError, or returns the Transform
toflush ==
    /\ stream = "none"
    /\ IF CallbackOf(options).type # "function"
       THEN /\ stream' = "threw"
            /\ name' = name
       ELSE /\ stream' = "open"
            /\ name' = ResolveName(options)
    /\ UNCHANGED <<pair, options, items, written, ended, nextCalls, calls, mode,
                   promise, outcome, pushed, copy, doneCalls, errors, trace>>

----------------------------------------------------------------------------
(* transform: function(obj, _, next) *)

\* a faulty variant: the method is looked for, and not called
IsStreamBackedUncalled(obj) == obj.isStream \in {"yes", "no"}

\* typeof obj.isStream == 'function' && obj.isStream()
IsStreamBacked(obj) == obj.isStream = "yes"

\* a faulty variant: the stream option is not consulted
ContentStreamRefusedAlways(obj, opts) == IsStreamBacked(obj)

\* ... && !options.stream
ContentStreamRefused(obj, opts) ==
    IsStreamBacked(obj) /\ ~OptionsOf(opts).stream

\* new Error(name + ': content streams are not enabled')
ContentStreamError(n) ==
    [type |-> "Error", message |-> n \o ": content streams are not enabled",
     identity |-> "new"]

\* a faulty variant: the new object goes to the front of the array
Unshift(arr, obj) == <<obj>> \o arr

\* items.push(obj)
Push(arr, obj) == Append(arr, obj)

\* a faulty variant: an accepted object is buffered and next is not called
transformNoAck(obj) ==
    /\ IF ContentStreamRefused(obj, options)
       THEN /\ nextCalls' = Append(nextCalls, ContentStreamError(name))
            /\ errors' = Append(errors, ContentStreamError(name))
            /\ stream' = "errored"
            /\ items' = items
            /\ trace' = trace \o <<Ev("transform", obj),
                                   Ev("next", ContentStreamError(name)),
                                   Ev("error", ContentStreamError(name))>>
       ELSE /\ items' = Push(items, obj)
            /\ trace' = Append(trace, Ev("transform", obj))
            /\ UNCHANGED <<nextCalls, errors, stream>>
    /\ UNCHANGED <<pair, options, name, calls, mode, promise, outcome, pushed,
                   copy, doneCalls>>

\* a faulty variant: the object is buffered before the content-stream check
transformPushFirst(obj) ==
    /\ items' = Push(items, obj)
    /\ IF ContentStreamRefused(obj, options)
       THEN /\ nextCalls' = Append(nextCalls, ContentStreamError(name))
            /\ errors' = Append(errors, ContentStreamError(name))
            /\ stream' = "errored"
            /\ trace' = trace \o <<Ev("transform", obj),
                                   Ev("next", ContentStreamError(name)),
                                   Ev("error", ContentStreamError(name))>>
       ELSE /\ nextCalls' = Append(nextCalls, Null)
            /\ trace' = trace \o <<Ev("transform", obj), Ev("next", Null)>>
            /\ UNCHANGED <<errors, stream>>
    /\ UNCHANGED <<pair, options, name, calls, mode, promise, outcome, pushed,
                   copy, doneCalls>>

\* next(err) makes the host emit err and stop the stream; next(null) lets it
\* go on to the next object.
transform(obj) ==
    /\ IF ContentStreamRefused(obj, options)
       THEN /\ nextCalls' = Append(nextCalls, ContentStreamError(name))
            /\ errors' = Append(errors, ContentStreamError(name))
            /\ stream' = "errored"
            /\ items' = items
            /\ trace' = trace \o <<Ev("transform", obj),
                                   Ev("next", ContentStreamError(name)),
                                   Ev("error", ContentStreamError(name))>>
       ELSE /\ items' = Push(items, obj)
            /\ nextCalls' = Append(nextCalls, Null)
            /\ trace' = trace \o <<Ev("transform", obj), Ev("next", Null)>>
            /\ UNCHANGED <<errors, stream>>
    /\ UNCHANGED <<pair, options, name, calls, mode, promise, outcome, pushed,
                   copy, doneCalls>>

\* The Transform calls transform and flush only while it is neither ended
\* nor stopped by an error.
Dispatches == stream = "open"

\* upstream writes one object, which it does not do once it has ended: the
\* Transform hands the object to transform, or refuses it (a write to a
\* stream that an error has stopped)
write(obj) ==
    /\ stream \notin {"none", "threw"}
    /\ ~ended
    /\ Len(written) < MaxItems
    /\ written' = Append(written, obj)
    /\ ended' = ended
    /\ IF Dispatches
       THEN transform(obj)
       ELSE UNCHANGED <<pair, options, stream, name, items, nextCalls, calls, mode,
                        promise, outcome, pushed, copy, doneCalls, errors,
                        trace>>

----------------------------------------------------------------------------
(* flush: function(done) *)

\* what reaches the stream when an exception leaves flush: the thrown value
Raw(e) ==
    [type |-> "Error",
     message |-> IF e.type = "Error" THEN e.message
                 ELSE IF e.type = "string" THEN e.text ELSE e.type,
     identity |-> "err"]

\* a faulty variant: Promise.resolve(callback.call(stream, items)), the callback runs
\* outside the promise, so what it throws leaves flush unwrapped
flushOutsidePromise ==
    /\ calls' = Append(calls, items)
    /\ \/ \E r \in Results :
            /\ mode' = "sync"
            /\ promise' = "fulfilled"
            /\ outcome' = r
            /\ stream' = "flushing"
            /\ errors' = errors
            /\ trace' = Append(trace, Ev("callback", items))
       \/ \E e \in Failures :
            /\ mode' = "sync"
            /\ promise' = "none"
            /\ outcome' = e
            /\ stream' = "errored"
            /\ errors' = Append(errors, Raw(e))
            /\ trace' = trace \o <<Ev("callback", items), Ev("error", Raw(e))>>
       \/ /\ mode' = "async"
          /\ promise' = "pending"
          /\ outcome' = outcome
          /\ stream' = "flushing"
          /\ errors' = errors
          /\ trace' = Append(trace, Ev("callback", items))
    /\ UNCHANGED <<pair, options, name, items, nextCalls, pushed, copy, doneCalls>>

\* new Promise(resolve => resolve(callback.call(stream, items))): the callback
\* runs inside the executor, so what it returns fulfils the promise, what it
\* throws rejects it, and a promise it returns is followed.
flush ==
    /\ stream' = "flushing"
    /\ calls' = Append(calls, items)
    /\ trace' = Append(trace, Ev("callback", items))
    /\ \/ \E r \in Results :
            /\ mode' = "sync"
            /\ promise' = "fulfilled"
            /\ outcome' = r
       \/ \E e \in Failures :
            /\ mode' = "sync"
            /\ promise' = "rejected"
            /\ outcome' = e
       \/ /\ mode' = "async"
          /\ promise' = "pending"
          /\ outcome' = outcome
    /\ UNCHANGED <<pair, options, name, items, nextCalls, pushed, copy, doneCalls,
                   errors>>

\* upstream signals end-of-input: the Transform calls flush, unless an error
\* has stopped it
end ==
    /\ stream \notin {"none", "threw"}
    /\ ~ended
    /\ ended' = TRUE
    /\ written' = written
    /\ IF Dispatches
       THEN flush
       ELSE UNCHANGED <<pair, options, stream, name, items, nextCalls, calls, mode,
                        promise, outcome, pushed, copy, doneCalls, errors,
                        trace>>

\* the promise the callback returned settles
settle ==
    /\ promise = "pending"
    /\ \/ \E r \in Results :
            /\ promise' = "fulfilled"
            /\ outcome' = r
       \/ \E e \in Failures :
            /\ promise' = "rejected"
            /\ outcome' = e
    /\ UNCHANGED <<pair, options, stream, name, items, written, ended, nextCalls,
                   calls, mode, pushed, copy, doneCalls, errors, trace>>

\* a faulty variant: the array is pushed as one object
ResultItemsWhole(result) == <<result>>

\* a faulty variant: undefined is taken for "nothing to push"
ResultItemsDefined(result) ==
    IF result.type = "array" THEN result.elems
    ELSE IF result.type = "undefined" THEN <<>>
    ELSE <<result>>

\* a faulty variant: an empty array is taken for a single value
ResultItemsNonEmpty(result) ==
    IF result.type = "array" /\ Len(result.elems) > 0 THEN result.elems
    ELSE <<result>>

\* Array.isArray(result) ? one push per element : one push of result
ResultItems(result) ==
    IF result.type = "array" THEN result.elems ELSE <<result>>

\* the stream.push calls that emit the elements of s, in order
Pushes(s) == [i \in 1..Len(s) |-> Ev("push", s[i])]

\* a faulty variant: what a returned promise resolves to is pushed as one
\* value, array or not
thenHandlerAsyncWhole ==
    /\ promise = "fulfilled"
    /\ pushed' = pushed \o (IF mode = "async" THEN <<outcome>>
                             ELSE ResultItems(outcome))
    /\ doneCalls' = Append(doneCalls, Null)
    /\ stream' = "finished"
    /\ promise' = "completed"
    /\ trace' = trace \o Pushes(IF mode = "async" THEN <<outcome>>
                                 ELSE ResultItems(outcome))
                      \o <<Ev("done", Null)>>
    /\ UNCHANGED <<pair, options, name, items, written, ended, nextCalls, calls,
                   mode, outcome, copy, errors>>

\* a faulty variant: done(null) is called before the results are pushed
thenHandlerDoneFirst ==
    /\ promise = "fulfilled"
    /\ pushed' = pushed \o ResultItems(outcome)
    /\ doneCalls' = Append(doneCalls, Null)
    /\ stream' = "finished"
    /\ promise' = "completed"
    /\ trace' = trace \o <<Ev("done", Null)>> \o Pushes(ResultItems(outcome))
    /\ UNCHANGED <<pair, options, name, items, written, ended, nextCalls, calls,
                   mode, outcome, copy, errors>>

\* .then(result => { ...push...; done(null); }): done(null) ends the stream
thenHandler ==
    /\ promise = "fulfilled"
    /\ pushed' = pushed \o ResultItems(outcome)
    /\ doneCalls' = Append(doneCalls, Null)
    /\ stream' = "finished"
    /\ promise' = "completed"
    /\ trace' = trace \o Pushes(ResultItems(outcome)) \o <<Ev("done", Null)>>
    /\ UNCHANGED <<pair, options, name, items, written, ended, nextCalls, calls,
                   mode, outcome, copy, errors>>

\* reading a property of undefined or null throws a TypeError
HasProperties(v) == v.type \notin {"undefined", "null"}

TypeError == ErrorObj("Cannot read property 'message' of undefined")

\* String(v), for the values a failure can be
ToText(v) ==
    IF v.type = "string" THEN v.text
    ELSE IF v.type = "Error"
         THEN (IF v.message = "" THEN "Error" ELSE "Error: " \o v.message)
    ELSE IF v.type \in {"undefined", "null"} THEN v.type
    ELSE "[object Object]"

\* err.message || err, as the text the concatenation makes of it
MessageOrValue(err) ==
    IF err.type = "Error" /\ err.message # "" THEN err.message
    ELSE ToText(err)

\* a faulty variant: a value that is not an Error is passed on as it is
WrappedErrorsOnly(n, err) ==
    IF err.type = "Error"
    THEN [type |-> "Error", message |-> n \o ": " \o MessageOrValue(err),
          identity |-> "err"]
    ELSE err

\* copy = err instanceof Error ? err : new Error();
\* copy.message = name + ': ' + (err.message || err)
Wrapped(n, err) ==
    [type |-> "Error", message |-> n \o ": " \o MessageOrValue(err),
     identity |-> IF err.type = "Error" THEN "err" ELSE "new"]

\* a faulty variant: the catch handler calls the callback again
catchHandlerRetry ==
    /\ promise = "rejected"
    /\ calls' = Append(calls, items)
    /\ promise' = "pending"
    /\ trace' = Append(trace, Ev("callback", items))
    /\ UNCHANGED <<pair, options, stream, name, items, written, ended, nextCalls,
                   mode, outcome, pushed, copy, doneCalls, errors>>

\* a faulty variant: the catch handler calls done(copy) itself; an exception
\* raised by the emit is then caught by the promise .catch returned
catchHandlerInline ==
    /\ promise = "rejected"
    /\ IF HasProperties(outcome)
       THEN /\ copy' = Wrapped(name, outcome)
            /\ doneCalls' = Append(doneCalls, Wrapped(name, outcome))
            /\ errors' = Append(errors, Wrapped(name, outcome))
            /\ stream' = "errored"
            /\ \/ /\ promise' = "delivered"
                  /\ trace' = trace \o <<Ev("done", Wrapped(name, outcome)),
                                         Ev("error", Wrapped(name, outcome))>>
               \/ /\ promise' = "unhandled"
                  /\ trace' = trace \o
                       <<Ev("done", Wrapped(name, outcome)),
                         Ev("unhandledRejection", Wrapped(name, outcome))>>
       ELSE /\ copy' = [type |-> "Error", message |-> "", identity |-> "new"]
            /\ promise' = "unhandled"
            /\ trace' = Append(trace, Ev("unhandledRejection", TypeError))
            /\ UNCHANGED <<doneCalls, errors, stream>>
    /\ UNCHANGED <<pair, options, name, items, written, ended, nextCalls,
                   calls, mode, outcome, pushed>>

\* .catch(err => { ...; setImmediate(() => done(copy)); }): when err is
\* undefined or null, copy is a new Error and err.message then throws inside
\* the handler: nothing is scheduled, and the promise .catch returned is
\* rejected with nobody listening
catchHandler ==
    /\ promise = "rejected"
    /\ IF HasProperties(outcome)
       THEN /\ copy' = Wrapped(name, outcome)
            /\ promise' = "immediate"
            /\ trace' = Append(trace, Ev("setImmediate", Wrapped(name, outcome)))
       ELSE /\ copy' = [type |-> "Error", message |-> "", identity |-> "new"]
            /\ promise' = "unhandled"
            /\ trace' = Append(trace, Ev("unhandledRejection", TypeError))
    /\ UNCHANGED <<pair, options, stream, name, items, written, ended, nextCalls,
                   calls, mode, outcome, pushed, doneCalls, errors>>

\* setImmediate(() => done(copy)): done(err) makes the host emit err; with a
\* listener the error is received, without one the emit throws it, out of the
\* setImmediate callback, as an uncaught exception of the process
immediate ==
    /\ promise = "immediate"
    /\ doneCalls' = Append(doneCalls, copy)
    /\ errors' = Append(errors, copy)
    /\ stream' = "errored"
    /\ promise' = "delivered"
    /\ \/ trace' = trace \o <<Ev("done", copy), Ev("error", copy)>>
       \/ trace' = trace \o <<Ev("done", copy), Ev("uncaughtException", copy)>>
    /\ UNCHANGED <<pair, options, name, items, written, ended, nextCalls, calls,
                   mode, outcome, pushed, copy>>

----------------------------------------------------------------------------
(* Exceptions out of stream.push and done(null).  Both calls run listeners  *)
(* of the stream synchronously ('data' for push, 'finish' and 'prefinish'   *)
(* for done); a listener that throws makes the call throw inside the        *)
(* then-handler, and the .catch chained after .then receives the exception. *)

\* what a listener throws
ListenerError == ErrorObj("listener error")

\* for (var r of result) stream.push(r): the k-th push throws
thenHandlerPushThrows ==
    /\ promise = "fulfilled"
    /\ \E k \in 1..Len(ResultItems(outcome)) :
         /\ pushed' = pushed \o SubSeq(ResultItems(outcome), 1, k)
         /\ trace' = trace \o Pushes(SubSeq(ResultItems(outcome), 1, k))
    /\ promise' = "rejected"
    /\ outcome' = ListenerError
    /\ UNCHANGED <<pair, options, stream, name, items, written, ended, nextCalls,
                   calls, mode, copy, doneCalls, errors>>

\* done(null) throws, after it has ended the stream
thenHandlerDoneThrows ==
    /\ promise = "fulfilled"
    /\ pushed' = pushed \o ResultItems(outcome)
    /\ doneCalls' = Append(doneCalls, Null)
    /\ stream' = "finished"
    /\ trace' = trace \o Pushes(ResultItems(outcome)) \o <<Ev("done", Null)>>
    /\ promise' = "rejected"
    /\ outcome' = ListenerError
    /\ UNCHANGED <<pair, options, name, items, written, ended, nextCalls, calls,
                   mode, copy, errors>>

----------------------------------------------------------------------------

Next ==
    \/ toflush
    \/ \E obj \in Items : write(obj)
    \/ end
    \/ settle
    \/ thenHandler
    \/ catchHandler
    \/ immediate

Spec == Init /\ [][Next]_vars

\* The event loop runs every queued promise job and every setImmediate
\* callback.  Upstream and the promise a callback returns owe nothing.
FairSpec ==
    /\ Spec
    /\ WF_vars(thenHandler)
    /\ WF_vars(catchHandler)
    /\ WF_vars(immediate)

\* the stream with listeners that may throw
NextFault == Next \/ thenHandlerPushThrows \/ thenHandlerDoneThrows

FaultSpec == Init /\ [][NextFault]_vars

----------------------------------------------------------------------------
(* Two streams made by two calls toflush(options) with the same argument,   *)
(* written to and ended in any interleaving.  var items = [] is evaluated   *)
(* in each call (toflush.js:94), so each stream has an array of its own.    *)

\* toflush(options), the i-th call
toflushAt(i) ==
    /\ pair[i].stream = "none"
    /\ pair' = [pair EXCEPT ![i] =
         IF CallbackOf(options).type # "function"
         THEN [@ EXCEPT !.stream = "threw"]
         ELSE [@ EXCEPT !.stream = "open", !.name = ResolveName(options)]]
    /\ UNCHANGED single

\* a faulty variant: one array, outside toflush, is used by every stream
transformAtShared(i, obj) ==
    IF ContentStreamRefused(obj, options)
    THEN [pair EXCEPT
            ![i].nextCalls = Append(@, ContentStreamError(pair[i].name)),
            ![i].stream = "errored",
            ![i].written = Append(@, obj)]
    ELSE [pair EXCEPT
            ![1].items = Push(@, obj),
            ![i].nextCalls = Append(@, Null),
            ![i].written = Append(@, obj)]

\* transform(obj, _, next) of the i-th stream: the value of pair afterwards
transformAt(i, obj) ==
    IF ContentStreamRefused(obj, options)
    THEN [pair EXCEPT
            ![i].nextCalls = Append(@, ContentStreamError(pair[i].name)),
            ![i].stream = "errored",
            ![i].written = Append(@, obj)]
    ELSE [pair EXCEPT
            ![i].items = Push(@, obj),
            ![i].nextCalls = Append(@, Null),
            ![i].written = Append(@, obj)]

\* upstream writes one object to the i-th stream
writeAt(i, obj) ==
    /\ pair[i].stream \notin {"none", "threw"}
    /\ ~pair[i].ended
    /\ Len(pair[i].written) < MaxItems
    /\ pair' = IF pair[i].stream = "open"
               THEN transformAt(i, obj)
               ELSE [pair EXCEPT ![i].written = Append(@, obj)]
    /\ UNCHANGED single

\* upstream ends the i-th stream: flush(done) calls callback.call(stream, items)
endAt(i) ==
    /\ pair[i].stream \notin {"none", "threw"}
    /\ ~pair[i].ended
    /\ pair' = IF pair[i].stream = "open"
               THEN [pair EXCEPT ![i].ended = TRUE,
                                 ![i].stream = "flushing",
                                 ![i].calls = Append(@, pair[i].items)]
               ELSE [pair EXCEPT ![i].ended = TRUE]
    /\ UNCHANGED single

NextPair ==
    \E i \in 1..2 :
        \/ toflushAt(i)
        \/ \E obj \in Items : writeAt(i, obj)
        \/ endAt(i)

PairSpec == Init /\ [][NextPair]_vars

----------------------------------------------------------------------------
(* Vocabulary of the properties *)

\* the lifecycle of the stage
State ==
    CASE stream = "open" -> "ACCEPTING"
      [] stream = "flushing" -> "TRANSFORMING"
      [] stream = "finished" -> "COMPLETED"
      [] stream = "errored" -> "FAILED"
      [] OTHER -> "NONE"

\* the objects the Transform has handed to transform(), in arrival order
Handed == SubSeq(written, 1, Len(nextCalls))

\* every object handed to transform() was accepted with next(null)
AllAccepted == \A i \in 1..Len(nextCalls) : nextCalls[i] = Null

\* the callback threw, or the promise it returned was rejected
\* the entries of the trace of one kind
Events(kind) == SelectSeq(trace, LAMBDA e : e.ev = kind)

CallbackFailed ==
    promise \in {"rejected", "immediate", "unhandled", "delivered"}

\* the callback succeeded and the then-handler has run
ThenHandlerRan == promise = "completed"

StartsWith(s, p) == Len(s) >= Len(p) /\ SubSeq(s, 1, Len(p)) = p

----------------------------------------------------------------------------
(* Properties *)

\* C1: the callback is not invoked before end-of-input; once upstream has
\* ended and every object handed to the stage was accepted, the callback has
\* been invoked exactly once, with exactly those objects in arrival order
\* (the empty array when there were none).
C1_InvokedOnceWithAllItems ==
    /\ ~ended => calls = <<>>
    /\ (ended /\ AllAccepted) => calls = <<Handed>>

C1_Witness ==
    /\ ended
    /\ AllAccepted
    /\ calls = << <<Obj(1, "no"), Obj(0, "absent"), Obj(1, "no")>> >>

\* C2: when the callback succeeded with an array of K values (returned or
\* resolved), exactly K pushes were made, one per element, in the array's
\* order, and the array itself was not pushed.
C2_ArrayPushedPerElement ==
    (ThenHandlerRan /\ outcome.type = "array") =>
        /\ Len(pushed) = Len(outcome.elems)
        /\ \A i \in 1..Len(pushed) : pushed[i] = outcome.elems[i]
        /\ \A i \in 1..Len(pushed) : pushed[i] # outcome

C2_Witness ==
    /\ ThenHandlerRan
    /\ mode = "async"
    /\ calls = << <<Obj(0, "absent"), Obj(1, "no")>> >>
    /\ outcome = Arr(<<Obj(1, "no"), Obj(0, "absent")>>)
    /\ pushed = <<Obj(1, "no"), Obj(0, "absent")>>

\* C3: when the callback succeeded with a value that is not an array
\* (undefined included), exactly one push was made, of that value, and
\* done(null) was called: the stage is COMPLETED.
C3_SingleValuePushedOnce ==
    (ThenHandlerRan /\ outcome.type # "array") =>
        /\ pushed = <<outcome>>
        /\ doneCalls = <<Null>>
        /\ errors = <<>>
        /\ State = "COMPLETED"

C3_Witness ==
    /\ ThenHandlerRan
    /\ outcome = Undefined
    /\ pushed = <<Undefined>>
    /\ State = "COMPLETED"

\* C4: when the callback succeeded with an empty array nothing is ever
\* pushed, and the stage goes on to COMPLETED with done(null).
C4_EmptyArrayCompletes ==
    /\ [](outcome = Arr(<<>>) /\ promise \in {"fulfilled", "completed"}
            => pushed = <<>>)
    /\ (outcome = Arr(<<>>) /\ promise = "fulfilled")
          ~> (State = "COMPLETED" /\ pushed = <<>> /\ doneCalls = <<Null>>)

C4_Witness ==
    /\ outcome = Arr(<<>>)
    /\ promise = "completed"
    /\ Len(calls[1]) = 2
    /\ pushed = <<>>
    /\ State = "COMPLETED"

\* C5: once the callback has failed (thrown, or rejected) and no promise job
\* or setImmediate callback is left to run, exactly one error has been
\* delivered on the failure channel, its message starts with the diagnostic
\* name, and the stage is FAILED -- whatever the failure value was.
C5_FailureDelivered ==
    (CallbackFailed /\ promise \notin {"rejected", "immediate"}) =>
        /\ Len(errors) = 1
        /\ StartsWith(errors[1].message, name \o ": ")
        /\ State = "FAILED"

\* the text that follows "<name>: " for a failure value, whichever way the
\* callback failed with it: its message, or the value itself as text when it
\* has no message to show
ExpectedText(e) ==
    CASE e = ErrorObj("test error") -> "test error"
      [] e = Str("test rejection") -> "test rejection"
      [] e = ErrorObj("") -> "Error"
      [] e = Str("") -> ""

\* C6: what the failure channel holds after the callback has run depends on
\* the failure value and the diagnostic name only, not on whether the value
\* was thrown or was the rejection of a returned promise: nothing until the
\* error is delivered, and then the one error whose message is "<name>: "
\* followed by the failure's message.
C6_SameMessageSyncAsync ==
    \A md \in {"sync", "async"} :
        (mode = md /\ Len(calls) = 1) =>
            IF promise = "delivered"
            THEN /\ Len(errors) = 1
                 /\ errors[1].message = name \o ": " \o ExpectedText(outcome)
            ELSE errors = <<>>

C6_Witness ==
    /\ mode = "async"
    /\ options = Fn("")
    /\ outcome = ErrorObj("test error")
    /\ promise = "delivered"
    /\ errors[1].message = "toflush: test error"

\* transform refused an object: its last next() call carried an error
Refused == nextCalls # <<>> /\ nextCalls[Len(nextCalls)] # Null

\* C7: once a stream-backed object was refused, the failure channel holds
\* the one error "<name>: content streams are not enabled", the buffer holds
\* the objects accepted before it and never the refused one or a later one,
\* nothing is pushed, and the callback is not invoked.
C7_ContentStreamRefused ==
    Refused =>
        LET k == Len(nextCalls) IN
        /\ \A i \in 1..(k - 1) : nextCalls[i] = Null
        /\ Len(errors) = 1
        /\ errors[1].message = name \o ": content streams are not enabled"
        /\ items = SubSeq(written, 1, k - 1)
        /\ \A i \in 1..Len(items) : items[i] # written[k]
        /\ pushed = <<>>
        /\ calls = <<>>
        /\ State = "FAILED"

C7_Witness ==
    /\ Refused
    /\ Len(nextCalls) = 2
    /\ Len(written) = 3
    /\ ended
    /\ items = <<Obj(0, "absent")>>

StateRank(s) ==
    CASE s = "NONE" -> 0
      [] s = "ACCEPTING" -> 1
      [] s = "TRANSFORMING" -> 2
      [] OTHER -> 3

\* C8: no step invokes the callback a second time, no step invokes it once
\* the stage is FAILED (end-of-input after a refused object included), and
\* no step takes the stage back: COMPLETED and FAILED are final.
C8_InvokedAtMostOnce ==
    [][/\ Len(calls') <= 1
       /\ calls # <<>> => calls' = calls
       /\ State = "FAILED" => (calls' = calls /\ State' = "FAILED")
       /\ State = "COMPLETED" => State' = "COMPLETED"
       /\ StateRank(State') >= StateRank(State)]_vars

C8_Witness ==
    /\ State = "FAILED"
    /\ Refused
    /\ ended
    /\ calls = <<>>
    /\ Len(written) = Len(nextCalls)

\* C9: after construction the diagnostic name is options.name if given, else
\* the callback's own name if it has one, else "toflush", and every error on
\* the failure channel starts with it.
C9_NameResolution ==
    stream \notin {"none", "threw"} =>
        LET explicit == IF options.type = "object" THEN options.name ELSE ""
            declared == IF options.type = "object" THEN options.callback.name
                        ELSE options.name
        IN  /\ name = IF explicit # "" THEN explicit
                      ELSE IF declared # "" THEN declared
                      ELSE "toflush"
            /\ (explicit = "namefromoptions" /\ declared = "dopedname")
                  => name = "namefromoptions"
            /\ options = Fn("customname") => name = "customname"
            /\ options = Fn("") => name = "toflush"
            /\ \A i \in 1..Len(errors) :
                  StartsWith(errors[i].message, name \o ": ")

C9_Witness ==
    /\ options = [type |-> "object", callback |-> Fn("dopedname"),
                  name |-> "namefromoptions", stream |-> FALSE]
    /\ Len(errors) = 1
    /\ errors[1].message = "namefromoptions: test error"

\* C10: with the stream option set no object is refused: every object handed
\* to the stage, stream-backed or not, is appended to the buffer at its
\* arrival position, no error is raised for it, and the callback receives
\* the same objects.
C10_ContentStreamAccepted ==
    (stream \notin {"none", "threw"} /\ options.type = "object"
       /\ options.stream) =>
        /\ AllAccepted
        /\ items = Handed
        /\ \A i \in 1..Len(errors) :
              errors[i].message # name \o ": content streams are not enabled"
        /\ calls # <<>> => calls[1] = Handed

C10_Witness ==
    /\ options.type = "object"
    /\ options.stream
    /\ calls = << <<Obj(0, "absent"), Obj(2, "yes"), Obj(1, "no")>> >>


\* C11: when the argument of toflush is neither a function nor a record whose
\* callback is a function (a missing argument included), the call throws at
\* once: no Transform ever exists, the callback is never invoked, nothing is
\* written, buffered, pushed or emitted as an error.
C11_InvalidArgumentThrows ==
    (~(options.type = "function"
       \/ (options.type = "object" /\ options.callback.type = "function")))
    => /\ stream \in {"none", "threw"}
       /\ State = "NONE"
       /\ written = <<>> /\ items = <<>> /\ nextCalls = <<>>
       /\ calls = <<>> /\ pushed = <<>> /\ doneCalls = <<>>
       /\ errors = <<>> /\ trace = <<>>
       /\ promise = "none" /\ ~ended
       /\ ~ENABLED (\E obj \in Items : write(obj))
       /\ ~ENABLED end

C11_Witness ==
    /\ stream = "threw"
    /\ options.type = "object"
    /\ options.callback.type # "function"

\* C12: the error delivered for a failure of the callback is an Error whose
\* message is "<name>: " followed by the failure's own message when it has a
\* non-empty one, and by the failure value as text otherwise; it is the
\* failure value itself when that is an Error, and a new Error otherwise, so
\* nothing but an Error is ever emitted on the failure channel or given to
\* done.
C12_DeliveredErrorShape ==
    /\ \A i \in 1..Len(errors) : errors[i].type = "Error"
    /\ \A i \in 1..Len(doneCalls) : doneCalls[i].type \in {"Error", "null"}
    /\ promise = "delivered" =>
         /\ errors = <<copy>> /\ doneCalls = <<copy>>
         /\ copy.type = "Error"
         /\ copy.message = name \o ": " \o
              (IF outcome.type = "Error" /\ outcome.message # ""
               THEN outcome.message
               ELSE IF outcome.type = "string" THEN outcome.text
               ELSE "Error")
         /\ copy.identity = (IF outcome.type = "Error" THEN "err" ELSE "new")

C12_Witness ==
    /\ promise = "delivered"
    /\ outcome = Str("test rejection")
    /\ errors = <<[type |-> "Error", message |-> name \o ": test rejection",
                   identity |-> "new"]>>

\* C13: the step in which the catch handler runs delivers nothing: done is
\* called and the error emitted only in a later step, the setImmediate
\* callback the handler scheduled.  So when the emit throws for want of a
\* listener, the exception is an uncaught exception of the process and the
\* promise chain has ended normally: done was called once, one error was
\* emitted, no promise rejection is left unhandled and nothing remains to run.
C13_DeliveredAfterTheHandler ==
    /\ [][/\ promise = "rejected" =>
              /\ doneCalls' = doneCalls /\ errors' = errors
              /\ stream' = stream /\ promise' # "delivered"
              /\ Events("done")' = Events("done")
              /\ Events("error")' = Events("error")
          /\ (doneCalls' # doneCalls /\ doneCalls'[Len(doneCalls')] # Null)
               => /\ promise = "immediate"
                  /\ doneCalls' = Append(doneCalls, copy)]_vars
    /\ [](promise = "delivered" =>
            /\ Len(Events("setImmediate")) = 1
            /\ Len(doneCalls) = 1 /\ Len(errors) = 1
            /\ Len(Events("done")) = 1
            /\ Len(Events("error")) + Len(Events("uncaughtException")) = 1
            /\ Events("unhandledRejection") = <<>>
            /\ ~ENABLED catchHandler /\ ~ENABLED immediate
            /\ ~ENABLED thenHandler)

C13_Witness ==
    /\ promise = "delivered"
    /\ trace[Len(trace)] = Ev("uncaughtException", copy)
    /\ trace[Len(trace) - 2].ev = "setImmediate"

\* C14: once the callback has returned, thrown, or its promise has settled,
\* the stage ends: when no job of the promise chain and no setImmediate
\* callback is left to run, done has been called and the stage is COMPLETED
\* or FAILED, not TRANSFORMING.
C14_SettledTerminates ==
    (/\ Len(calls) = 1
     /\ promise # "pending"
     /\ ~ENABLED thenHandler /\ ~ENABLED catchHandler /\ ~ENABLED immediate)
    => /\ Len(doneCalls) = 1
       /\ State \in {"COMPLETED", "FAILED"}

\* C15: done is called at most once, and the two endings exclude each other,
\* also when stream.push or done(null) throws: a stream that was given
\* done(null) gets no done(error) and emits no error, and one that got
\* done(error) is not given done(null).
C15_OneOutcome ==
    /\ Len(doneCalls) <= 1
    /\ (\E i \in 1..Len(doneCalls) : doneCalls[i] = Null) => errors = <<>>
    /\ Len(Events("done")) <= 1

\* C16: nothing is pushed while the stage is ACCEPTING; every push comes
\* after the one call of the callback, and only when that call succeeded;
\* done(null) comes after the push of every result item; nothing is pushed
\* after done(null).
C16_PushOrder ==
    /\ State = "ACCEPTING" => (pushed = <<>> /\ Events("push") = <<>>)
    /\ \A i \in 1..Len(trace) :
         trace[i].ev = "push" =>
           /\ \E j \in 1..(i - 1) : trace[j].ev = "callback"
           /\ \A j \in 1..(i - 1) : trace[j].ev # "done"
           /\ ~CallbackFailed
           /\ Len(calls) = 1
    /\ \A i \in 1..Len(trace) :
         trace[i] = Ev("done", Null) =>
           /\ i = Len(trace)
           /\ Len(Events("push")) =
                (IF outcome.type = "array" THEN Len(outcome.elems) ELSE 1)
           /\ [k \in 1..Len(pushed) |-> Events("push")[k].arg] = pushed

C16_Witness ==
    /\ State = "COMPLETED"
    /\ Len(pushed) = 2
    /\ trace[Len(trace)] = Ev("done", Null)
    /\ trace[Len(trace) - 1].ev = "push"
    /\ Len(written) > 0

\* C17: while the promise the callback returned is unsettled the stage is
\* TRANSFORMING and has pushed nothing, called done with nothing and emitted
\* no error; no step taken while it is unsettled changes that, so a promise
\* that never settles leaves the stage TRANSFORMING for ever.  transform
\* never waits: each object it is given is answered by a next call, with
\* null or with the content-stream error, before the step is over.
C17_PendingStaysTransforming ==
    /\ [](promise = "pending" =>
            /\ mode = "async"
            /\ State = "TRANSFORMING"
            /\ pushed = <<>> /\ doneCalls = <<>> /\ errors = <<>>
            /\ Events("push") = <<>> /\ Events("done") = <<>>
            /\ Events("error") = <<>>)
    /\ [][promise = "pending" =>
            /\ State' = "TRANSFORMING"
            /\ UNCHANGED <<stream, pushed, doneCalls, errors>>
            /\ promise' \in {"pending", "fulfilled", "rejected"}]_vars
    /\ [](/\ Len(Events("transform")) = Len(Events("next"))
          /\ Len(Events("next")) = Len(nextCalls)
          /\ \A i \in 1..Len(trace) :
               trace[i].ev = "transform" =>
                 /\ i < Len(trace)
                 /\ trace[i + 1].ev = "next"
                 /\ trace[i + 1].arg.type \in {"null", "Error"}
          /\ State = "ACCEPTING" => Len(nextCalls) = Len(written))

C17_Witness ==
    /\ promise = "pending"
    /\ State = "TRANSFORMING"
    /\ Len(written) = 2
    /\ Len(nextCalls) = 2

\* C18: a callback that returns V and one that returns a promise resolving
\* to V end the same way, whatever was written: in either mode the stage
\* goes on to COMPLETED, and what it has pushed by then is the elements of V
\* in order when V is an array and V alone when it is not, with done(null)
\* called once and no error.
C18_SyncAsyncSameEmission ==
    /\ [](\A md \in {"sync", "async"} :
            (mode = md /\ Len(calls) = 1 /\ ~CallbackFailed) =>
              /\ outcome \in Results \/ promise = "pending"
              /\ IF promise = "completed"
                 THEN /\ pushed = (IF outcome.type = "array"
                                    THEN outcome.elems ELSE <<outcome>>)
                      /\ State = "COMPLETED"
                      /\ doneCalls = <<Null>> /\ errors = <<>>
                 ELSE /\ pushed = <<>> /\ doneCalls = <<>>
                      /\ State = "TRANSFORMING")
    /\ \A md \in {"sync", "async"} :
         (mode = md /\ promise = "fulfilled") ~> (mode = md /\ State = "COMPLETED")

C18_Witness ==
    /\ mode = "async"
    /\ State = "COMPLETED"
    /\ outcome.type = "array"
    /\ Len(outcome.elems) = 2
    /\ pushed = outcome.elems
    /\ Len(written) > 0

\* the objects the i-th stream of the pair answered with next(null), in the
\* order they were written to it
AcceptedAt(i) ==
    LET n == pair[i].nextCalls
        idx == SelectSeq([k \in 1..Len(n) |-> k], LAMBDA k : n[k] = Null)
    IN  [j \in 1..Len(idx) |-> pair[i].written[idx[j]]]

\* C19: of two streams made from the same function or the same options
\* record, written to and ended in any interleaving, each buffers the
\* objects it accepted itself, in the order they came, and its callback is
\* given exactly those: nothing written to one stream shows up in the other.
C19_BuffersPerInstance ==
    \A i \in 1..2 :
        /\ pair[i].items = AcceptedAt(i)
        /\ Len(pair[i].calls) <= 1
        /\ pair[i].calls # <<>> => pair[i].calls = <<AcceptedAt(i)>>
        /\ pair[i].ended /\ pair[i].nextCalls = [k \in 1..Len(pair[i].written) |-> Null]
             => pair[i].calls = <<pair[i].written>>

C19_Witness ==
    /\ pair[1].calls = <<<<Obj(0, "absent"), Obj(1, "no")>>>>
    /\ pair[2].calls = <<<<Obj(1, "no"), Obj(1, "no"), Obj(0, "absent")>>>>
    /\ options.type = "function"

\* C20: an object that has no isStream method, or whose isStream answers
\* false, is answered with next(null) and buffered, whatever the stream
\* option is; next is given the content-stream error for exactly the objects
\* whose isStream answers true while the stream option is not set.
C20_RefusedOnlyWhenStreamBacked ==
    LET allow == options.type = "object" /\ options.stream
        answered == SubSeq(written, 1, Len(nextCalls))
    IN  /\ \A k \in 1..Len(nextCalls) :
             /\ written[k].isStream \in {"absent", "no"} => nextCalls[k] = Null
             /\ nextCalls[k] # Null <=> (written[k].isStream = "yes" /\ ~allow)
             /\ nextCalls[k] # Null =>
                  nextCalls[k].message = name \o ": content streams are not enabled"
        /\ items = SelectSeq(answered,
                             LAMBDA o : o.isStream \in {"absent", "no"} \/ allow)

C20_Witness ==
    /\ options.type = "object" /\ ~options.stream
    /\ written = <<Obj(1, "no"), Obj(0, "absent"), Obj(2, "yes")>>
    /\ items = <<Obj(1, "no"), Obj(0, "absent")>>
    /\ Len(nextCalls) = 3
    /\ nextCalls[3] # Null

====
